---- MODULE Spec2Model ----
(***************************************************************************)
(* Model of the pipeline execution engine of build-test-pipeline-sim       *)
(* (src/sim/runner.py): configuration loading and validation, the build    *)
(* and test phases of run_pipeline, and the result / telemetry data it     *)
(* produces.                                                               *)
(*                                                                         *)
(* Strings are sequences of one-character strings, so that str.strip() and *)
(* string concatenation are computed rather than assumed.  A YAML mapping  *)
(* is a function whose DOMAIN is the set of keys it declares, so that      *)
(* `"payload" in m` and m.get(k, default) read as in the source.  Times    *)
(* are integers in tenths of a second.  The value of a seconds key is a    *)
(* tagged YAML scalar, so that float() can fail on it as it does in the    *)
(* source.                                                                 *)
(***************************************************************************)
EXTENDS Integers, Sequences, FiniteSets, TLC

\* ------------------------------------------------------------------ bounds
\* Largest number of units of work (module mappings plus test mappings) in a
\* configuration document.
MaxUnits == 3

\* --------------------------------------------------------- program constants
\* time.sleep(max(0.0, min(seconds, 2.0))): the cap, in tenths of a second.
SleepCap == 20
\* float(m.get("seconds", 0.2)) and float(t.get("seconds", 0.1)), in tenths.
DefaultModuleSeconds == 2
DefaultTestSeconds == 1

\* ------------------------------------------------------------------ strings
SP == " "
EmptyStr == << >>
\* str(None), what str(m.get("name")) yields for a mapping without the key.
NoneStr == <<"N", "o", "n", "e">>

RECURSIVE LStrip(_)
LStrip(s) == IF s # << >> /\ Head(s) = SP THEN LStrip(Tail(s)) ELSE s

RECURSIVE RStrip(_)
RStrip(s) ==
    IF s # << >> /\ s[Len(s)] = SP THEN RStrip(SubSeq(s, 1, Len(s) - 1)) ELSE s

\* str.strip(): surrounding whitespace removed.
Strip(s) == RStrip(LStrip(s))

\* Code-point order of the characters the model uses.
CharRank(c) ==
    CASE c = " " -> 0
      [] c = "#" -> 1
      [] c = "N" -> 2
      [] c = "W" -> 3
      [] c = "a" -> 4
      [] c = "b" -> 5
      [] c = "c" -> 6
      [] c = "e" -> 7
      [] c = "n" -> 8
      [] c = "o" -> 9
      [] c = "p" -> 10
      [] c = "q" -> 11
      [] c = "t" -> 12
      [] c = "u" -> 13
      [] OTHER -> 14

\* Python's < on str: lexicographic by code point.
RECURSIVE StrLess(_, _)
StrLess(s, t) ==
    IF t = << >> THEN FALSE
    ELSE IF s = << >> THEN TRUE
    ELSE IF Head(s) = Head(t) THEN StrLess(Tail(s), Tail(t))
    ELSE CharRank(Head(s)) < CharRank(Head(t))

\* sorted(S) for a set of strings.
RECURSIVE Sorted(_)
Sorted(S) ==
    IF S = {} THEN << >>
    ELSE LET least == CHOOSE x \in S : \A y \in S \ {x} : StrLess(x, y)
         IN  <<least>> \o Sorted(S \ {least})

\* ------------------------------------------------------------- core helpers
\* _digest: sha256((name + payload).encode()).hexdigest().  The hash is
\* modelled as an injective image of its input, the concatenation.
Digest(name, payload) == <<"#">> \o name \o payload

Min(a, b) == IF a < b THEN a ELSE b
Max(a, b) == IF a > b THEN a ELSE b

\* Mutant of SleepFor: the upper cap is missing.
SleepForUncapped(seconds) == Max(0, seconds)

\* The argument _do_work passes to time.sleep.
SleepFor(seconds) == Max(0, Min(seconds, SleepCap))

\* dict.get(key, default)
Get(m, key, default) == IF key \in DOMAIN m THEN m[key] ELSE default

\* -------------------------------------------------------------- exceptions
\* The ConfigError subclasses; args are the identifiers the message is built
\* from.  NoError stands for a call that returns normally.
NoError == [kind |-> "OK", args |-> << >>]
NotMappingError == [kind |-> "NotMapping", args |-> << >>]
EmptyModuleNameError == [kind |-> "EmptyModuleName", args |-> << >>]
DuplicateModuleNamesError(names) ==
    [kind |-> "DuplicateModuleNames", args |-> Sorted({names[i] : i \in DOMAIN names})]
MissingPayloadError(module_name) == [kind |-> "MissingPayload", args |-> <<module_name>>]
NegativeModuleSecondsError(module_name) ==
    [kind |-> "NegativeModuleSeconds", args |-> <<module_name>>]
EmptyTestNameError == [kind |-> "EmptyTestName", args |-> << >>]
UnknownModuleRefError(test_name, target) ==
    [kind |-> "UnknownModuleRef", args |-> <<test_name, target>>]
NegativeTestSecondsError(test_name) == [kind |-> "NegativeTestSeconds", args |-> <<test_name>>]

\* Exceptions that are no ConfigError: what float() raises on a value it
\* cannot convert.
TypeErrorExc == [kind |-> "TypeError", args |-> << >>]
ValueErrorExc == [kind |-> "ValueError", args |-> << >>]

\* isinstance(e, ConfigError), which `except ConfigError` tests.
IsConfigError(e) ==
    e.kind \in {"NotMapping", "EmptyModuleName", "DuplicateModuleNames", "MissingPayload",
                "NegativeModuleSeconds", "EmptyTestName", "UnknownModuleRef",
                "NegativeTestSeconds"}

\* ------------------------------------------------------------ configuration
EmptyMap == [k \in {} |-> k]

\* YAML scalars under a seconds key: a number, a string that float() parses
\* (num is its value), a string that it does not parse, and null.
Num(n) == [type |-> "num", num |-> n]
NumericStr(n) == [type |-> "numstr", num |-> n]
OtherStr == [type |-> "str", num |-> 0]
Null == [type |-> "null", num |-> 0]

\* float(v): the exception it raises (NoError if none) and the value.
Float(v) ==
    CASE v.type \in {"num", "numstr"} -> [err |-> NoError, val |-> v.num]
      [] v.type = "str" -> [err |-> ValueErrorExc, val |-> 0]
      [] OTHER -> [err |-> TypeErrorExc, val |-> 0]

\* Each field of a mapping is drawn from a small set; EmptyMap stands for a
\* mapping that does not declare the key.
ModuleNameChoices == {<<"a">>, <<" ", "a">>, <<"b">>, <<" ">>}
PayloadChoices == {EmptyMap, "payload" :> <<"p">>}
ModuleSecondsChoices == {EmptyMap, "seconds" :> Num(-10)}

\* The module mappings a document may hold.
ModuleMaps ==
    { ("name" :> n) @@ p @@ s :
        n \in ModuleNameChoices, p \in PayloadChoices, s \in ModuleSecondsChoices }

TestNameChoices == {<<"t">>, <<" ">>}
TargetChoices == {<<"a">>, <<" ", "a">>}
TestSecondsChoices == {"seconds" :> Num(30), "seconds" :> Num(-10)}
ExpectedChoices ==
    {EmptyMap, "expected_digest" :> Digest(<<"a">>, <<"p">>), "expected_digest" :> <<"W">>}

\* The test mappings a document may hold.
TestMaps ==
    { ("name" :> n) @@ ("module" :> g) @@ s @@ e :
        n \in TestNameChoices, g \in TargetChoices,
        s \in TestSecondsChoices, e \in ExpectedChoices }

\* What yaml.safe_load returns for the file: a mapping with modules and tests,
\* or a value of another type (null for an empty document).
MappingDoc(ms, ts) == [top |-> "mapping", body |-> ("modules" :> ms) @@ ("tests" :> ts)]
OtherDocs ==
    { [top |-> k, body |-> EmptyMap] :
        k \in {"null", "list", "empty_list", "scalar", "falsy_scalar"} }

\* Python truthiness of the parsed value.
Truthy(doc) ==
    CASE doc.top = "mapping" -> doc.body # EmptyMap
      [] doc.top \in {"list", "scalar"} -> TRUE
      [] OTHER -> FALSE

\* _load_config: `yaml.safe_load(raw) or {}`, then the isinstance check.
\* Returns the error raised (NoError if none) and the mapping returned.
LoadConfig(doc) ==
    LET cfg == IF Truthy(doc) THEN doc ELSE [top |-> "mapping", body |-> EmptyMap]
    IN  IF cfg.top # "mapping"
        THEN [err |-> NotMappingError, cfg |-> EmptyMap]
        ELSE [err |-> NoError, cfg |-> cfg.body]

\* list(cfg.get("modules", []) or []) and list(cfg.get("tests", []) or [])
ModulesOf(cfg) == Get(cfg, "modules", << >>)
TestsOf(cfg) == Get(cfg, "tests", << >>)

\* --------------------------------------------------------------- validation
\* Mutant of Count: the occurrence at hand is not counted.
CountOthers(seq, x) == Cardinality({i \in DOMAIN seq : seq[i] = x}) - 1

\* names.count(n)

Count(seq, x) == Cardinality({i \in DOMAIN seq : seq[i] = x})

\* The `for m in mods` loop of _validate_modules, from index i on.
RECURSIVE ModuleLoop(_, _)
ModuleLoop(mods, i) ==
    IF i > Len(mods) THEN NoError
    ELSE LET m == mods[i]
         IN  IF "payload" \notin DOMAIN m
                 THEN MissingPayloadError(Get(m, "name", NoneStr))
             ELSE IF "seconds" \in DOMAIN m /\ Float(m["seconds"]).err # NoError
                 THEN Float(m["seconds"]).err
             ELSE IF "seconds" \in DOMAIN m /\ Float(m["seconds"]).val < 0
                 THEN NegativeModuleSecondsError(Get(m, "name", NoneStr))
             ELSE ModuleLoop(mods, i + 1)

\* _validate_modules
ValidateModules(mods) ==
    LET names == [i \in DOMAIN mods |-> Strip(Get(mods[i], "name", EmptyStr))]
        dupes == Sorted({names[i] : i \in {j \in DOMAIN names : Count(names, names[j]) > 1}})
    IN  IF \E i \in DOMAIN names : names[i] = EmptyStr THEN EmptyModuleNameError
        ELSE IF dupes # << >> THEN DuplicateModuleNamesError(dupes)
        ELSE ModuleLoop(mods, 1)

\* The `for t in tests` loop of _validate_tests, from index i on.
RECURSIVE TestLoop(_, _, _)
TestLoop(tests, mod_names, i) ==
    IF i > Len(tests) THEN NoError
    ELSE LET t == tests[i]
             name == Strip(Get(t, "name", EmptyStr))
             target == Strip(Get(t, "module", EmptyStr))
         IN  IF name = EmptyStr THEN EmptyTestNameError
             ELSE IF target \notin mod_names THEN UnknownModuleRefError(name, target)
             ELSE IF "seconds" \in DOMAIN t /\ Float(t["seconds"]).err # NoError
                 THEN Float(t["seconds"]).err
             ELSE IF "seconds" \in DOMAIN t /\ Float(t["seconds"]).val < 0
                 THEN NegativeTestSecondsError(name)
             ELSE TestLoop(tests, mod_names, i + 1)

\* _validate_tests
ValidateTests(tests, mod_names) == TestLoop(tests, mod_names, 1)

\* The set validate_config passes as mod_names: {str(m.get("name")) for m in modules}
\* Mutant of ValidateConfig: the tests are validated before the modules.
ValidateConfigTestsFirst(doc) ==
    LET loaded == LoadConfig(doc)
        modules == ModulesOf(loaded.cfg)
        tests == TestsOf(loaded.cfg)
        terr == ValidateTests(tests, {Get(modules[i], "name", NoneStr) : i \in DOMAIN modules})
    IN  IF loaded.err # NoError THEN loaded.err
        ELSE IF terr # NoError THEN terr
        ELSE ValidateModules(modules)

ModNames(modules) == { Get(modules[i], "name", NoneStr) : i \in DOMAIN modules }

\* validate_config: the error it raises for the document, NoError if none.
ValidateConfig(doc) ==
    LET loaded == LoadConfig(doc)
        modules == ModulesOf(loaded.cfg)
        tests == TestsOf(loaded.cfg)
        merr == ValidateModules(modules)
    IN  IF loaded.err # NoError THEN loaded.err
        ELSE IF merr # NoError THEN merr
        ELSE ValidateTests(tests, ModNames(modules))

\* -------------------------------------------------------------------- state
VARIABLES
    file,            \* the parsed content of the configuration file
    pc,              \* where run_pipeline stands
    dry_run,         \* run_pipeline's dry_run argument
    modules,         \* run_pipeline's local `modules`
    tests,           \* run_pipeline's local `tests`
    idx,             \* position of the running for loop (1-based)
    artifacts,       \* module name -> digest
    failures,
    results,         \* list of test rows
    telemetry_rows,
    csv_rows,        \* rows written to telemetry.csv, header included
    ndjson,          \* lines written to events.ndjson
    out_made,        \* out.mkdir has run
    out_files,       \* names of the files that exist in the output directory
    results_obj,     \* what was serialised to results.json
    stdout,          \* lines printed
    ret,             \* run_pipeline's return value, NoReturn until it returns
    slept            \* the arguments of the time.sleep calls so far

vars ==
    <<file, pc, dry_run, modules, tests, idx, artifacts, failures, results,
      telemetry_rows, csv_rows, ndjson, out_made, out_files, results_obj,
      stdout, ret, slept>>

NoReturn == -1
CsvHeader == <<"stage", "name", "duration_s", "meta">>

\* time.time() - t0 around a sleep of `delay`: the delay plus scheduler jitter.
Jitter == {0, 1}

\* The state before run_pipeline is called, the file apart.
Fresh ==
    /\ pc = "NotStarted"
    /\ dry_run = FALSE
    /\ modules = << >>
    /\ tests = << >>
    /\ idx = 0
    /\ artifacts = EmptyMap
    /\ failures = 0
    /\ results = << >>
    /\ telemetry_rows = << >>
    /\ csv_rows = << >>
    /\ ndjson = << >>
    /\ out_made = FALSE
    /\ out_files = {}
    /\ results_obj = EmptyMap
    /\ stdout = << >>
    /\ ret = NoReturn
    /\ slept = << >>

Init ==
    /\ \/ \E a \in 0..MaxUnits : \E b \in 0..(MaxUnits - a) :
             \E ms \in [1..a -> ModuleMaps], ts \in [1..b -> TestMaps] :
                file = MappingDoc(ms, ts)
       \/ file \in OtherDocs
    /\ Fresh

\* Mutant of RaiseConfigError: the handler prints the diagnostic but does not
\* return, so the run goes on.
PrintAndContinue(e) ==
    /\ stdout' = Append(stdout, [error |-> "config_error", message |-> e])
    /\ ret' = ret
    /\ pc' = "Validating"

\* The `except ConfigError` handler of run_pipeline: print the diagnostic, return 2.
RaiseConfigError(e) ==
    /\ stdout' = Append(stdout, [error |-> "config_error", message |-> e])
    /\ ret' = 2
    /\ pc' = "Failed"

\* An exception that no handler of run_pipeline catches leaves it: the call
\* ends without a return value.
Propagate ==
    /\ pc' = "Crashed"
    /\ UNCHANGED <<stdout, ret>>

\* run_pipeline(config_path, out_dir, dry_run=d) is called and runs
\* validate_config(config_path), the first statement of its try block.
Begin(d) ==
    /\ pc = "NotStarted"
    /\ dry_run' = d
    /\ LET e == ValidateConfig(file)
       IN  IF e = NoError THEN pc' = "Validating" /\ UNCHANGED <<stdout, ret>>
           ELSE IF IsConfigError(e) THEN RaiseConfigError(e)
           ELSE Propagate
    /\ UNCHANGED <<file, modules, tests, idx, artifacts, failures, results,
                   telemetry_rows, csv_rows, ndjson, out_made, out_files,
                   results_obj, slept>>

\* cfg = _load_config(config_path), still inside the try block, then the
\* locals and out.mkdir.
LoadStep ==
    /\ pc = "Validating"
    /\ LET loaded == LoadConfig(file)
       IN  IF loaded.err # NoError
           THEN /\ RaiseConfigError(loaded.err)
                /\ UNCHANGED <<modules, tests, out_made>>
           ELSE /\ modules' = ModulesOf(loaded.cfg)
                /\ tests' = TestsOf(loaded.cfg)
                /\ out_made' = TRUE
                /\ pc' = "Ready"
                /\ UNCHANGED <<stdout, ret>>
    /\ UNCHANGED <<file, dry_run, idx, artifacts, failures, results,
                   telemetry_rows, csv_rows, ndjson, out_files, results_obj, slept>>

\* Mutant of IsDry: the dry_run flag is ignored.
NeverDry == FALSE

\* `if dry_run:`
IsDry == dry_run

\* The dry-run branch: header-only CSV, empty NDJSON, dry results, the report.
DryRun ==
    /\ pc = "Ready"
    /\ IsDry
    /\ csv_rows' = <<CsvHeader>>
    /\ ndjson' = << >>
    /\ results_obj' = [dry_run |-> TRUE, artifacts |-> EmptyMap, tests |-> << >>,
                       failures |-> 0]
    /\ out_files' = out_files \cup
                      {"telemetry.csv", "events.ndjson", "results.json", "report.html"}
    /\ ret' = 0
    /\ pc' = "DryComplete"
    /\ UNCHANGED <<file, dry_run, modules, tests, idx, artifacts, failures,
                   results, telemetry_rows, out_made, stdout, slept>>

\* The normal run opens both files and writes the CSV header.
OpenOutputs ==
    /\ pc = "Ready"
    /\ ~IsDry
    /\ out_files' = out_files \cup {"telemetry.csv", "events.ndjson"}
    /\ csv_rows' = <<CsvHeader>>
    /\ idx' = 1
    /\ pc' = "Building"
    /\ UNCHANGED <<file, dry_run, modules, tests, artifacts, failures, results,
                   telemetry_rows, ndjson, out_made, results_obj, stdout, ret, slept>>

\* Mutant of EmitTelemetry: the record is put in front of the earlier ones.
EmitTelemetryFirst(rows, row) == <<row>> \o rows

\* telemetry_rows.append(row)
EmitTelemetry(rows, row) == Append(rows, row)

\* Mutant of PutArtifact: the earlier entries are dropped.
PutArtifactOnly(arts, name, digest) == [n \in {name} |-> digest]

\* artifacts[name] = digest
PutArtifact(arts, name, digest) ==
    [n \in DOMAIN arts \cup {name} |-> IF n = name THEN digest ELSE arts[n]]

\* One iteration of `for m in modules`.
BuildStep ==
    /\ pc = "Building"
    /\ idx <= Len(modules)
    /\ LET m == modules[idx]
           name == m["name"]
           payload == Get(m, "payload", EmptyStr)
           converted == Float(Get(m, "seconds", Num(DefaultModuleSeconds)))
           seconds == converted.val
           digest == Digest(name, payload)
       IN  IF converted.err # NoError
           THEN /\ Propagate
                /\ UNCHANGED <<slept, artifacts, telemetry_rows, csv_rows, ndjson, idx>>
           ELSE \E jit \in Jitter :
                  LET dur == SleepFor(seconds) + jit
                      row == [stage |-> "build", name |-> name, duration_s |-> dur,
                              meta |-> digest]
                  IN  /\ slept' = Append(slept, SleepFor(seconds))
                      /\ artifacts' = PutArtifact(artifacts, name, digest)
                      /\ telemetry_rows' = EmitTelemetry(telemetry_rows, row)
                      /\ csv_rows' = Append(csv_rows, <<"build", name, dur, digest>>)
                      /\ ndjson' = Append(ndjson, row)
                      /\ idx' = idx + 1
                      /\ UNCHANGED <<pc, stdout, ret>>
    /\ UNCHANGED <<file, dry_run, modules, tests, failures, results,
                   out_made, out_files, results_obj>>

\* The build loop is exhausted; the test loop starts.
EndBuild ==
    /\ pc = "Building"
    /\ idx > Len(modules)
    /\ idx' = 1
    /\ pc' = "Testing"
    /\ UNCHANGED <<file, dry_run, modules, tests, artifacts, failures, results,
                   telemetry_rows, csv_rows, ndjson, out_made, out_files,
                   results_obj, stdout, ret, slept>>

\* ok = (expected is None) or (expected == artifacts.get(target))
TestOk(t, target, arts) ==
    \/ "expected_digest" \notin DOMAIN t
    \/ (target \in DOMAIN arts /\ t["expected_digest"] = arts[target])

\* Mutant of CountFailure: the passing tests are counted.
CountPass(n, ok) == IF ok THEN n + 1 ELSE n

\* if not ok: failures += 1
CountFailure(n, ok) == IF ~ok THEN n + 1 ELSE n

\* Mutant of TestLoopDone: the loop also ends at the first failed test.
TestLoopDoneOrFailed == idx > Len(tests) \/ failures > 0

\* `for t in tests` has no test left to run.
TestLoopDone == idx > Len(tests)

\* One iteration of `for t in tests`.
TestStep ==
    /\ pc = "Testing"
    /\ ~TestLoopDone
    /\ LET t == tests[idx]
           t_name == t["name"]
           target == Get(t, "module", EmptyStr)
           converted == Float(Get(t, "seconds", Num(DefaultTestSeconds)))
           seconds == converted.val
           ok == TestOk(t, target, artifacts)
           meta == [ok |-> ok]
       IN  IF converted.err # NoError
           THEN /\ Propagate
                /\ UNCHANGED <<slept, results, telemetry_rows, csv_rows, ndjson,
                               failures, idx>>
           ELSE \E jit \in Jitter :
                  LET tdur == SleepFor(seconds) + jit
                      t_row == [name |-> t_name, module |-> target, ok |-> ok,
                                duration_s |-> tdur]
                      tele == [stage |-> "test", name |-> t_name, duration_s |-> tdur,
                               meta |-> meta]
                  IN  /\ slept' = Append(slept, SleepFor(seconds))
                      /\ results' = Append(results, t_row)
                      /\ telemetry_rows' = EmitTelemetry(telemetry_rows, tele)
                      /\ csv_rows' = Append(csv_rows, <<"test", t_name, tdur, meta>>)
                      /\ ndjson' = Append(ndjson, tele)
                      /\ failures' = CountFailure(failures, ok)
                      /\ idx' = idx + 1
                      /\ UNCHANGED <<pc, stdout, ret>>
    /\ UNCHANGED <<file, dry_run, modules, tests, artifacts, out_made,
                   out_files, results_obj>>

\* _try_parquet_exports: the files it leaves, with or without pandas+pyarrow.
ParquetFiles(pandas, rows) ==
    IF pandas
    THEN (IF rows # << >> THEN {"telemetry.parquet"} ELSE {}) \cup {"results.parquet"}
    ELSE {"parquet_export_failed.txt"}

\* Mutant of ExitCode: test failures do not reach the exit code.
ExitCodeZero(n) == 0

\* return 1 if failures else 0
ExitCode(n) == IF n # 0 THEN 1 ELSE 0

\* After the loops: results.json, the parquet exports, the report, the exit code.
Finish ==
    /\ pc = "Testing"
    /\ TestLoopDone
    /\ results_obj' = [failures |-> failures, tests |-> results, artifacts |-> artifacts]
    /\ \E pandas \in BOOLEAN :
         out_files' = out_files \cup {"results.json", "report.html"}
                        \cup ParquetFiles(pandas, telemetry_rows)
    /\ ret' = ExitCode(failures)
    /\ pc' = "Complete"
    /\ UNCHANGED <<file, dry_run, modules, tests, idx, artifacts, failures,
                   results, telemetry_rows, csv_rows, ndjson, out_made, stdout, slept>>

Next ==
    \/ \E d \in BOOLEAN : Begin(d)
    \/ LoadStep
    \/ DryRun
    \/ OpenOutputs
    \/ BuildStep
    \/ EndBuild
    \/ TestStep
    \/ Finish

Spec == Init /\ [][Next]_vars

\* ================================================================== claims
\* The modules and tests of the configuration file, and what the run printed.
FileModules == ModulesOf(LoadConfig(file).cfg)
FileTests == TestsOf(LoadConfig(file).cfg)
TrimmedModuleNames == { Strip(FileModules[i]["name"]) : i \in DOMAIN FileModules }

\* validate_config has run.
Validated == pc # "NotStarted"
\* The ConfigError the run was aborted with, NoError if none.
Raised == IF pc = "Failed" THEN stdout[1].message ELSE NoError

\* The run is a non-dry run that has entered its loops.
InNormalRun == pc \in {"Building", "Testing", "Complete"}

\* ------------------------------------------------- runs over seconds values
\* Largest seconds value, in tenths, a unit of work declares (above the cap).
MaxSeconds == 22

\* A seconds key is absent or holds a number from -0.1 up.
SecondsChoices == {EmptyMap} \cup { "seconds" :> Num(n) : n \in (-1)..MaxSeconds }

\* Modules a and b and a test of a, each with any of the seconds values.
InitSeconds ==
    /\ \E s1, s2, s3 \in SecondsChoices :
          file = MappingDoc(
                    << ("name" :> <<"a">>) @@ ("payload" :> <<"p">>) @@ s1,
                       ("name" :> <<"b">>) @@ ("payload" :> <<"p">>) @@ s2 >>,
                    << ("name" :> <<"t">>) @@ ("module" :> <<"a">>) @@ s3 >>)
    /\ Fresh

SpecSeconds == InitSeconds /\ [][Next]_vars

\* ------------------------------------------- validation of repeated names
\* Largest number of module mappings in a document with repeated names.
MaxDupModules == 4

\* Names that trim to a or b, with leading or trailing blanks.
DupNameChoices == {<<"a">>, <<" ", "a">>, <<"b", " ">>}

\* A module that passes checks 3 and 4, one without payload, one with a
\* negative seconds.
DupModuleMaps ==
    { ("name" :> n) @@ r :
        n \in DupNameChoices,
        r \in { "payload" :> <<"p">>,
                "seconds" :> Num(0),
                ("payload" :> <<"p">>) @@ ("seconds" :> Num(-10)) } }

\* No test, or one test that fails checks 5 and 7.
DupTestLists ==
    { << >>,
      << ("name" :> <<" ">>) @@ ("module" :> <<"a">>) @@ ("seconds" :> Num(-10)) >> }

InitDup ==
    /\ \E a \in 0..MaxDupModules :
          \E ms \in [1..a -> DupModuleMaps], ts \in DupTestLists :
             file = MappingDoc(ms, ts)
    /\ Fresh

\* validate_config alone, as the first step of a run.
NextDup == \E d \in BOOLEAN : Begin(d)

SpecDup == InitDup /\ [][NextDup]_vars

\* ------------------------------------------------------------------ explain
\* Mutant of ModItem: the digest is computed from the name alone.
ModItemNameDigest(m, include_digests) ==
    LET name == Get(m, "name", NoneStr)
        payload == Get(m, "payload", NoneStr)
        seconds == Float(Get(m, "seconds", Num(DefaultModuleSeconds))).val
        item == ("name" :> name) @@ ("payload" :> payload) @@ ("seconds" :> seconds)
    IN  IF include_digests
        THEN item @@ ("expected_digest" :> Digest(name, EmptyStr))
        ELSE item

\* The body of `for m in modules` in explain_config: the module's entry.
ModItem(m, include_digests) ==
    LET name == Get(m, "name", NoneStr)
        payload == Get(m, "payload", NoneStr)
        seconds == Float(Get(m, "seconds", Num(DefaultModuleSeconds))).val
        item == ("name" :> name) @@ ("payload" :> payload) @@ ("seconds" :> seconds)
    IN  IF include_digests
        THEN item @@ ("expected_digest" :> Digest(name, payload))
        ELSE item

\* Mutant of TestItem: every test is reported as expecting a digest.
TestItemAlwaysExpects(t) ==
    [name |-> Get(t, "name", Null),
     module |-> Get(t, "module", Null),
     seconds |-> Float(Get(t, "seconds", Num(DefaultTestSeconds))).val,
     expects_digest |-> TRUE]

\* The element of test_list in explain_config: the test's entry.
TestItem(t) ==
    [name |-> Get(t, "name", Null),
     module |-> Get(t, "module", Null),
     seconds |-> Float(Get(t, "seconds", Num(DefaultTestSeconds))).val,
     expects_digest |-> "expected_digest" \in DOMAIN t]

\* explain_config: the exception it raises (NoError if none) and the plan.
\* It loads the file and validates nothing.
ExplainConfig(doc, include_digests) ==
    LET loaded == LoadConfig(doc)
        ms == ModulesOf(loaded.cfg)
        ts == TestsOf(loaded.cfg)
        NoPlan == [modules |-> << >>, tests |-> << >>]
    IN  IF loaded.err # NoError THEN [err |-> loaded.err, plan |-> NoPlan]
        ELSE IF \E i \in DOMAIN ms :
                   Float(Get(ms[i], "seconds", Num(DefaultModuleSeconds))).err # NoError
        THEN LET i == CHOOSE j \in DOMAIN ms :
                        /\ Float(Get(ms[j], "seconds", Num(DefaultModuleSeconds))).err # NoError
                        /\ \A h \in 1..(j - 1) :
                              Float(Get(ms[h], "seconds", Num(DefaultModuleSeconds))).err = NoError
             IN  [err |-> Float(ms[i]["seconds"]).err, plan |-> NoPlan]
        ELSE IF \E k \in DOMAIN ts :
                   Float(Get(ts[k], "seconds", Num(DefaultTestSeconds))).err # NoError
        THEN LET k == CHOOSE j \in DOMAIN ts :
                        /\ Float(Get(ts[j], "seconds", Num(DefaultTestSeconds))).err # NoError
                        /\ \A h \in 1..(j - 1) :
                              Float(Get(ts[h], "seconds", Num(DefaultTestSeconds))).err = NoError
             IN  [err |-> Float(ts[k]["seconds"]).err, plan |-> NoPlan]
        ELSE [err |-> NoError,
              plan |-> [modules |-> [i \in DOMAIN ms |-> ModItem(ms[i], include_digests)],
                        tests |-> [k \in DOMAIN ts |-> TestItem(ts[k])]]]

\* The explain command has ended: its plan or its traceback is the last thing
\* printed.
Explained ==
    /\ stdout # << >>
    /\ DOMAIN stdout[Len(stdout)] \in {{"modules", "tests"}, {"traceback"}}

\* The explain command of the CLI, run on the file once the run has ended:
\* it prints the plan, or ends with the traceback of what explain_config
\* raised.
Explain(include_digests) ==
    /\ pc \in {"Failed", "DryComplete", "Complete", "Crashed"}
    /\ ~Explained
    /\ LET r == ExplainConfig(file, include_digests)
       IN  IF r.err = NoError
           THEN stdout' = Append(stdout, r.plan)
           ELSE stdout' = Append(stdout, [traceback |-> r.err])
    /\ UNCHANGED <<file, pc, dry_run, modules, tests, idx, artifacts, failures, results,
                   telemetry_rows, csv_rows, ndjson, out_made, out_files, results_obj,
                   ret, slept>>

\* Largest number of units of work in a document that is explained.
MaxPlanUnits == 3

\* Modules a and b with or without payload and seconds; tests of a or b with
\* or without seconds, with no, the right or a wrong expected_digest.
PlanModuleMaps ==
    { ("name" :> n) @@ p @@ s :
        n \in {<<"a">>, <<"b">>},
        p \in {EmptyMap, "payload" :> <<"p">>},
        s \in {EmptyMap, "seconds" :> NumericStr(5)} }

PlanTestMaps ==
    { ("name" :> <<"t">>) @@ ("module" :> g) @@ s @@ e :
        g \in {<<"a">>, <<"b">>},
        s \in {EmptyMap, "seconds" :> Num(1)},
        e \in {EmptyMap, "expected_digest" :> Digest(<<"a">>, <<"p">>)} }

InitExplain ==
    /\ \E a \in 0..MaxPlanUnits : \E b \in 0..(MaxPlanUnits - a) :
          \E ms \in [1..a -> PlanModuleMaps], ts \in [1..b -> PlanTestMaps] :
             file = MappingDoc(ms, ts)
    /\ Fresh

NextExplain ==
    \/ Next
    \/ \E include_digests \in BOOLEAN : Explain(include_digests)

SpecExplain == InitExplain /\ [][NextExplain]_vars

\* ------------------------------------------------------------ run to the end
\* The statements of run_pipeline after validate_config.
Proceed ==
    \/ LoadStep
    \/ DryRun
    \/ OpenOutputs
    \/ BuildStep
    \/ EndBuild
    \/ TestStep
    \/ Finish

\* Whether run_pipeline is called is up to the caller.  Once called it is
\* sequential code without a blocking call other than the capped sleep: a
\* run that has a next statement executes it.
SpecLive == InitExplain /\ [][Next]_vars /\ WF_vars(Proceed)

\* ------------------------------------------------- the file is rewritten
\* Contents another process may give the configuration file: two valid
\* configurations, one whose module lacks its payload and whose test refers
\* to no module, one whose module has a non-numeric seconds, and a list.
RewriteDocs ==
    { MappingDoc(<< ("name" :> <<"a">>) @@ ("payload" :> <<"p">>) >>,
                 << ("name" :> <<"t">>) @@ ("module" :> <<"a">>) >>),
      MappingDoc(<< ("name" :> <<"b">>) @@ ("payload" :> <<"q">>) >>,
                 << >>),
      MappingDoc(<< ("name" :> <<"c">>) >>,
                 << ("name" :> <<"u">>) @@ ("module" :> <<"e">>) >>),
      MappingDoc(<< ("name" :> <<"a">>) @@ ("payload" :> <<"p">>) @@ ("seconds" :> OtherStr) >>,
                 << >>),
      [top |-> "list", body |-> EmptyMap] }

InitRewrite ==
    /\ file \in RewriteDocs
    /\ Fresh

\* Another process replaces the content of the configuration file.
Rewrite(doc) ==
    /\ file # doc
    /\ file' = doc
    /\ UNCHANGED <<pc, dry_run, modules, tests, idx, artifacts, failures, results,
                   telemetry_rows, csv_rows, ndjson, out_made, out_files, results_obj,
                   stdout, ret, slept>>

NextRewrite ==
    \/ Next
    \/ \E doc \in RewriteDocs : Rewrite(doc)

SpecRewrite == InitRewrite /\ [][NextRewrite]_vars

\* ------------------------------------------------ runs over scalar kinds
\* A seconds key is absent or holds a number, a numeric string, another
\* string or null.
ScalarSecondsChoices ==
    {EmptyMap} \cup
    { "seconds" :> v : v \in {Num(0), Num(-10), NumericStr(5), OtherStr, Null} }

\* Modules a and b and a test of a, each with any of these seconds.
InitScalars ==
    /\ \E s1, s2, s3 \in ScalarSecondsChoices :
          file = MappingDoc(
                    << ("name" :> <<"a">>) @@ ("payload" :> <<"p">>) @@ s1,
                       ("name" :> <<"b">>) @@ ("payload" :> <<"p">>) @@ s2 >>,
                    << ("name" :> <<"t">>) @@ ("module" :> <<"a">>) @@ s3 >>)
    /\ Fresh

SpecScalars == InitScalars /\ [][Next]_vars

\* ----------------------------------------------------------------------- C1
\* C1: in a non-dry run of a validated configuration, every TestResult's ok
\* is true exactly when the test has no expected_digest or its
\* expected_digest equals the digest the build phase recorded for the module
\* that validation matched the test's module field against (the module whose
\* name is the trimmed module field).
C1_OkIffExpectedMatches ==
    InNormalRun =>
        \A k \in DOMAIN results :
            LET t == tests[k]
            IN  results[k].ok <=>
                    \/ "expected_digest" \notin DOMAIN t
                    \/ \E i \in DOMAIN modules :
                          /\ modules[i]["name"] = Strip(t["module"])
                          /\ modules[i]["name"] \in DOMAIN artifacts
                          /\ artifacts[modules[i]["name"]] = t["expected_digest"]

\* ----------------------------------------------------------------------- C3
NamesNonEmptyAndUnique(ms) ==
    /\ \A i \in DOMAIN ms : Strip(ms[i]["name"]) # EmptyStr
    /\ \A i, j \in DOMAIN ms : i # j => Strip(ms[i]["name"]) # Strip(ms[j]["name"])

\* C3: the module checks apply in the order 1-4 over the whole module list:
\* with all names non-empty and unique, a module lacking payload anywhere in
\* the list makes the error MissingPayload, and NegativeModuleSeconds is
\* raised only when every module declares a payload.
C3_ModuleChecksInFixedOrder ==
    (Validated /\ file.top = "mapping" /\ NamesNonEmptyAndUnique(FileModules)) =>
        /\ (\E i \in DOMAIN FileModules : "payload" \notin DOMAIN FileModules[i])
              => Raised.kind = "MissingPayload"
        /\ Raised.kind = "NegativeModuleSeconds"
              => \A i \in DOMAIN FileModules : "payload" \in DOMAIN FileModules[i]

\* ----------------------------------------------------------------------- C4
ModulesPassChecks(ms) ==
    /\ NamesNonEmptyAndUnique(ms)
    /\ \A i \in DOMAIN ms :
          /\ "payload" \in DOMAIN ms[i]
          /\ "seconds" \in DOMAIN ms[i] =>
                (ms[i]["seconds"].type = "num" /\ ms[i]["seconds"].num >= 0)

AnyEmptyTestName == \E k \in DOMAIN FileTests : Strip(FileTests[k]["name"]) = EmptyStr
AnyUnknownModuleRef ==
    \E k \in DOMAIN FileTests : Strip(FileTests[k]["module"]) \notin TrimmedModuleNames
AnyNegativeTestSeconds ==
    \E k \in DOMAIN FileTests :
        /\ "seconds" \in DOMAIN FileTests[k]
        /\ FileTests[k]["seconds"].type = "num"
        /\ FileTests[k]["seconds"].num < 0

\* C4: when the modules pass checks 1-4, the error raised is that of the
\* lowest-numbered test check (5, 6, 7) that any test of the list violates,
\* whichever test comes first in the configuration.
C4_LowestTestCheckWins ==
    (Validated /\ file.top = "mapping" /\ ModulesPassChecks(FileModules)) =>
        /\ AnyEmptyTestName => Raised.kind = "EmptyTestName"
        /\ (~AnyEmptyTestName /\ AnyUnknownModuleRef) => Raised.kind = "UnknownModuleRef"
        /\ (~AnyEmptyTestName /\ ~AnyUnknownModuleRef /\ AnyNegativeTestSeconds)
              => Raised.kind = "NegativeTestSeconds"

\* ----------------------------------------------------------------------- C5
\* C5: validation accepts a module reference exactly when the test's trimmed
\* module field equals the trimmed name of a declared module: a configuration
\* that validates has no other reference, and UnknownModuleRef(test_name,
\* target) names a test whose trimmed module field is no module's trimmed name.
C5_RefMatchesTrimmedName ==
    (Validated /\ file.top = "mapping" /\ ModulesPassChecks(FileModules)) =>
        /\ Raised = NoError => ~AnyUnknownModuleRef
        /\ Raised.kind = "UnknownModuleRef" =>
              /\ Raised.args[2] \notin TrimmedModuleNames
              /\ \E k \in DOMAIN FileTests :
                    /\ Strip(FileTests[k]["name"]) = Raised.args[1]
                    /\ Strip(FileTests[k]["module"]) = Raised.args[2]

\* ----------------------------------------------------------------------- C2
Returned == pc \in {"Failed", "DryComplete", "Complete"}
ConfigErrorOf(doc) ==
    LET e == ValidateConfig(doc)
    IN  IF e # NoError THEN e ELSE LoadConfig(doc).err

\* C2: run_pipeline returns 2 exactly when loading or validation raises a
\* ConfigError; otherwise 1 exactly when some TestResult has ok = false, and
\* 0 otherwise (every dry run of a valid configuration included).
C2_ExitCodeByOutcome ==
    /\ Returned <=> ret # NoReturn
    /\ Returned =>
          LET e == ConfigErrorOf(file)
          IN  /\ ret = IF e # NoError THEN 2
                       ELSE IF \E k \in DOMAIN results : ~results[k].ok THEN 1
                       ELSE 0
              /\ (dry_run /\ e = NoError) => ret = 0

\* A completed run with a passing and a failing test returned 1.
C2_Witness ==
    /\ pc = "Complete"
    /\ ret = 1
    /\ \E k \in DOMAIN results : results[k].ok
    /\ \E k \in DOMAIN results : ~results[k].ok

\* ----------------------------------------------------------------------- C6
\* C6: when loading or validation fails with a ConfigError, the run (dry or
\* not) sleeps for no unit of work and leaves no telemetry record, no test
\* result, no artifact and no output file: it prints the config_error
\* diagnostic and returns 2, nothing else.
C6_ConfigErrorLeavesNothing ==
    (pc = "Failed" \/ (Validated /\ ConfigErrorOf(file) # NoError)) =>
        /\ pc = "Failed"
        /\ ret = 2
        /\ stdout = <<[error |-> "config_error", message |-> ConfigErrorOf(file)]>>
        /\ slept = << >>
        /\ telemetry_rows = << >>
        /\ results = << >>
        /\ artifacts = EmptyMap
        /\ csv_rows = << >>
        /\ ndjson = << >>
        /\ out_files = {}
        /\ ~out_made
        /\ results_obj = EmptyMap

\* A non-dry run of a document with a module and a test was aborted.
C6_Witness ==
    /\ pc = "Failed"
    /\ ~dry_run
    /\ Len(FileModules) > 0
    /\ Len(FileTests) > 0
    /\ Raised.kind = "NegativeTestSeconds"

\* ----------------------------------------------------------------------- C7
DryResults == [dry_run |-> TRUE, artifacts |-> EmptyMap, tests |-> << >>, failures |-> 0]

\* C7: a dry run of a configuration that passes validation sleeps for no unit
\* of work, builds no module, runs no test, emits no telemetry record and
\* yields the dry-marked result with zero tests, zero artifacts, failures 0
\* and exit code 0; an invalid configuration yields exit code 2 in a dry run.
C7_DryRunDoesNoWork ==
    (Validated /\ dry_run) =>
        /\ slept = << >>
        /\ artifacts = EmptyMap
        /\ results = << >>
        /\ telemetry_rows = << >>
        /\ ndjson = << >>
        /\ failures = 0
        /\ ~InNormalRun
        /\ LET e == ConfigErrorOf(file)
           IN  /\ e # NoError => (pc = "Failed" /\ ret = 2)
               /\ e = NoError => pc \in {"Validating", "Ready", "DryComplete"}
        /\ pc = "DryComplete" =>
              /\ ret = 0
              /\ results_obj = DryResults
              /\ csv_rows = <<CsvHeader>>

\* A dry run of a configuration with modules and tests has completed.
C7_Witness ==
    /\ pc = "DryComplete"
    /\ dry_run
    /\ Len(modules) > 0
    /\ Len(tests) > 0

\* ----------------------------------------------------------------------- C8
IsPrefix(s, t) == Len(s) <= Len(t) /\ \A k \in DOMAIN s : s[k] = t[k]

\* The record (less its duration) that unit k of the configuration yields:
\* the modules in configuration order, then the tests in configuration order.
ExpectedRecord(k) ==
    IF k <= Len(modules)
    THEN [stage |-> "build", name |-> modules[k]["name"],
          meta |-> Digest(modules[k]["name"], modules[k]["payload"])]
    ELSE LET t == tests[k - Len(modules)]
         IN  [stage |-> "test", name |-> t["name"],
              meta |-> [ok |-> TestOk(t, t["module"], artifacts)]]

Undated(r) == [stage |-> r.stage, name |-> r.name, meta |-> r.meta]

\* C8: in a non-dry run of a valid configuration the telemetry sequence, at
\* every step, is a prefix of the sequence holding one record per module in
\* configuration order followed by one record per test in configuration
\* order, and is that whole sequence when the run completes; the CSV rows
\* and the NDJSON lines mirror it record for record.
C8_TelemetryInExecutionOrder ==
    InNormalRun =>
        /\ Len(telemetry_rows) <= Len(modules) + Len(tests)
        /\ \A k \in DOMAIN telemetry_rows : Undated(telemetry_rows[k]) = ExpectedRecord(k)
        /\ pc = "Building" => Len(telemetry_rows) = idx - 1
        /\ pc = "Testing" => Len(telemetry_rows) = Len(modules) + idx - 1
        /\ pc = "Complete" => Len(telemetry_rows) = Len(modules) + Len(tests)
        /\ ndjson = telemetry_rows
        /\ csv_rows = <<CsvHeader>> \o
              [k \in DOMAIN telemetry_rows |->
                  <<telemetry_rows[k].stage, telemetry_rows[k].name,
                    telemetry_rows[k].duration_s, telemetry_rows[k].meta>>]

\* A completed run of two modules and a test.
C8_Witness ==
    /\ pc = "Complete"
    /\ Len(modules) = 2
    /\ Len(tests) = 1
    /\ Len(telemetry_rows) = 3

\* ----------------------------------------------------------------------- C9
\* C9: a non-dry run of a valid configuration records one TestResult per
\* configured test, in configuration order, each with that test's name and
\* module; a failed test does not stop the later tests from being run and
\* recorded.
C9_OneResultPerTest ==
    InNormalRun =>
        /\ Len(results) <= Len(tests)
        /\ \A k \in DOMAIN results :
              /\ results[k].name = tests[k]["name"]
              /\ results[k].module = tests[k]["module"]
        /\ pc = "Building" => results = << >>
        /\ pc = "Testing" => Len(results) = idx - 1
        /\ pc = "Complete" => Len(results) = Len(tests)

\* A completed run whose first test failed and whose second test, on another
\* module field, was still recorded.
C9_Witness ==
    /\ pc = "Complete"
    /\ Len(results) = 2
    /\ ~results[1].ok
    /\ results[2].ok
    /\ results[1].module # results[2].module

\* ---------------------------------------------------------------------- C10
NotOk(rs) == {k \in DOMAIN rs : ~rs[k].ok}

\* C10: at every step the failures counter is the number of TestResults
\* recorded so far whose ok is false, so it lies between 0 and the number of
\* configured tests; the final RunResult carries that count.
C10_FailuresCountsNotOk ==
    /\ failures = Cardinality(NotOk(results))
    /\ failures >= 0
    /\ failures <= Len(FileTests)
    /\ pc = "Complete" =>
          /\ results_obj.failures = Cardinality(NotOk(results_obj.tests))
          /\ results_obj.tests = results

\* In the middle of the test phase: one failed and one passed test recorded.
C10_Witness ==
    /\ pc = "Testing"
    /\ Len(results) = 2
    /\ failures = 1

\* ---------------------------------------------------------------------- C11
\* The trimmed names that two or more modules of the file share.
SharedNames ==
    { n \in TrimmedModuleNames :
        Cardinality({i \in DOMAIN FileModules : Strip(FileModules[i]["name"]) = n}) >= 2 }

\* C11: when every module's trimmed name is non-empty, validation raises
\* DuplicateModuleNames exactly when two or more modules share a trimmed
\* name, whatever the payloads, seconds and tests are; the error lists each
\* shared name once, in ascending order, and no other name.
C11_DuplicateNamesReported ==
    (Validated /\ \A i \in DOMAIN FileModules : Strip(FileModules[i]["name"]) # EmptyStr) =>
        /\ Raised.kind = "DuplicateModuleNames" <=> SharedNames # {}
        /\ SharedNames # {} =>
              /\ Len(Raised.args) = Cardinality(SharedNames)
              /\ {Raised.args[k] : k \in DOMAIN Raised.args} = SharedNames
              /\ \A j, k \in DOMAIN Raised.args :
                    j < k => StrLess(Raised.args[j], Raised.args[k])

\* Two names are each shared by two modules, written with different blanks
\* and lacking a payload, and the only test is faulty too.
C11_Witness ==
    /\ pc = "Failed"
    /\ Raised.kind = "DuplicateModuleNames"
    /\ Raised.args = << <<"a">>, <<"b">> >>
    /\ Len(FileModules) = 4
    /\ FileModules[1]["name"] = <<"b", " ">>
    /\ \E i \in DOMAIN FileModules : FileModules[i]["name"] = <<" ", "a">>
    /\ \E i \in DOMAIN FileModules : "payload" \notin DOMAIN FileModules[i]
    /\ FileTests # << >>

\* ---------------------------------------------------------------------- C12
\* C12: loading fails with NotMapping for every document whose top-level
\* parsed value is not a mapping (a list, the empty list included, or a
\* scalar such as 0, false or the empty string); only the empty document,
\* parsed as null, is taken as an empty mapping.
C12_NonMappingFailsNotMapping ==
    Validated =>
        /\ file.top \notin {"mapping", "null"} => Raised.kind = "NotMapping"
        /\ file.top = "null" => Raised = NoError

\* ---------------------------------------------------------------------- C13
ModuleErrorKinds ==
    {"EmptyModuleName", "DuplicateModuleNames", "MissingPayload", "NegativeModuleSeconds"}

\* C13: validation is fail-fast with the module checks first: whenever a
\* module violates one of checks 1-4 the error raised is a module error,
\* never a test error, whatever the tests contain, and a failed validation
\* raises exactly one error.
C13_ModuleErrorBeforeTestError ==
    /\ (Validated /\ file.top = "mapping" /\ ~ModulesPassChecks(FileModules)) =>
          /\ pc = "Failed"
          /\ Raised.kind \in ModuleErrorKinds
    /\ pc = "Failed" => Len(stdout) = 1

\* Validation failed on a module although a test violates a check as well.
C13_Witness ==
    /\ pc = "Failed"
    /\ file.top = "mapping"
    /\ ~ModulesPassChecks(FileModules)
    /\ AnyEmptyTestName \/ AnyUnknownModuleRef \/ AnyNegativeTestSeconds
    /\ Raised.kind \in ModuleErrorKinds

\* ---------------------------------------------------------------------- C14
\* The plan the explain command printed.
Plan == stdout[Len(stdout)]
HasPlan == Explained /\ DOMAIN Plan = {"modules", "tests"}

\* C14: for a valid configuration, explain with include_digests = true gives
\* every module the expected_digest that the completed non-dry run of the
\* same configuration recorded as that module's artifact; with
\* include_digests = false no module entry has an expected_digest.
C14_ExplainDigestIsRunDigest ==
    [][\A include_digests \in BOOLEAN :
          (pc = "Complete" /\ Explain(include_digests)) =>
              LET plan == stdout'[Len(stdout')]
              IN  /\ DOMAIN plan = {"modules", "tests"}
                  /\ Len(plan.modules) = Len(modules)
                  /\ \A i \in DOMAIN plan.modules :
                        IF include_digests
                        THEN /\ "expected_digest" \in DOMAIN plan.modules[i]
                             /\ modules[i]["name"] \in DOMAIN artifacts
                             /\ plan.modules[i]["expected_digest"]
                                   = artifacts[modules[i]["name"]]
                        ELSE "expected_digest" \notin DOMAIN plan.modules[i]]_vars

\* After a completed run of two modules the plan carries both digests.
C14_Witness ==
    /\ pc = "Complete"
    /\ HasPlan
    /\ Len(Plan.modules) = 2
    /\ \A i \in DOMAIN Plan.modules :
          /\ "expected_digest" \in DOMAIN Plan.modules[i]
          /\ Plan.modules[i]["expected_digest"] = artifacts[Plan.modules[i]["name"]]

\* ---------------------------------------------------------------------- C15
\* C15: for a configuration that passes validation, explain does not raise
\* and returns one module entry per configured module and one test entry per
\* configured test, in configuration order; a test entry's expects_digest is
\* true exactly when the test mapping has an expected_digest.
C15_ExplainMirrorsConfig ==
    (Explained /\ ValidateConfig(file) = NoError) =>
        /\ HasPlan
        /\ Len(Plan.modules) = Len(FileModules)
        /\ \A i \in DOMAIN Plan.modules :
              /\ Plan.modules[i]["name"] = FileModules[i]["name"]
              /\ Plan.modules[i]["payload"] = FileModules[i]["payload"]
        /\ Len(Plan.tests) = Len(FileTests)
        /\ \A k \in DOMAIN Plan.tests :
              /\ Plan.tests[k].name = FileTests[k]["name"]
              /\ Plan.tests[k].module = FileTests[k]["module"]
              /\ Plan.tests[k].expects_digest <=> "expected_digest" \in DOMAIN FileTests[k]

\* The plan of a valid configuration with a module and two tests, one with
\* and one without expected_digest.
C15_Witness ==
    /\ HasPlan
    /\ ValidateConfig(file) = NoError
    /\ Len(Plan.modules) >= 1
    /\ Len(Plan.tests) = 2
    /\ Plan.tests[1].expects_digest
    /\ ~Plan.tests[2].expects_digest

\* ---------------------------------------------------------------------- C16
\* The state of the run's state machine: validation lasts until the
\* configuration is loaded for the loops.
Phase(p) == IF p = "Ready" THEN "Validating" ELSE p
PhaseRank(p) ==
    CASE p = "NotStarted" -> 0
      [] p \in {"Validating", "Ready"} -> 1
      [] p = "Building" -> 2
      [] p = "Testing" -> 3
      [] OTHER -> 4
Terminal == pc \in {"Failed", "DryComplete", "Complete"}

\* The edges of NotStarted -> Validating -> (Failed | DryComplete |
\* Building -> Testing -> Complete); validate_config is one step, so a run
\* whose validation fails passes through Validating within that step.
PhaseEdge(p, q) ==
    \/ p = q
    \/ p = "NotStarted" /\ q \in {"Validating", "Failed"}
    \/ p = "Validating" /\ q \in {"Failed", "DryComplete", "Building"}
    \/ p = "Building" /\ q = "Testing"
    \/ p = "Testing" /\ q = "Complete"

\* C16: every run follows one path of the state machine and, once started,
\* ends in exactly one of Failed, DryComplete and Complete, where it stays; Building is
\* entered only after a successful validation with dry_run false, Testing
\* only after every module is built, Complete only after every test is run,
\* and no state is entered again once left.
C16_RunFollowsStateMachine ==
    /\ [][/\ PhaseEdge(Phase(pc), Phase(pc'))
          /\ PhaseRank(pc) <= PhaseRank(pc')
          /\ Terminal => pc' = pc
          /\ (pc' = "Building" /\ pc # "Building") =>
                /\ pc = "Ready"
                /\ ~dry_run
                /\ ValidateConfig(file) = NoError
                /\ artifacts = EmptyMap
          /\ (pc' = "Testing" /\ pc # "Testing") =>
                /\ pc = "Building"
                /\ Len(telemetry_rows) = Len(modules)
                /\ Cardinality(DOMAIN artifacts) = Len(modules)
                /\ results = << >>
          /\ (pc' = "Complete" /\ pc # "Complete") =>
                /\ pc = "Testing"
                /\ Len(results) = Len(tests)]_vars
    /\ Validated ~> Terminal

\* A run of two modules and a test has gone through every state to Complete.
C16_Witness ==
    /\ pc = "Complete"
    /\ ~dry_run
    /\ Len(modules) = 2
    /\ Len(results) = 1
    /\ Len(telemetry_rows) = 3

\* ---------------------------------------------------------------------- C17
\* digest(name, payload) of every configured module, keyed by module name.
ArtifactsOf(ms) ==
    [n \in {ms[i]["name"] : i \in DOMAIN ms} |->
        LET i == CHOOSE j \in DOMAIN ms : ms[j]["name"] = n
        IN  Digest(n, Get(ms[i], "payload", EmptyStr))]

\* C17: in a non-dry run of a valid configuration artifacts has exactly k
\* entries once the first k modules are built; from the end of the build
\* phase on it has one entry per configured module, mapping the name to
\* digest(name, payload) whatever the seconds values are, and it stays so
\* through every step of the test phase.
C17_ArtifactsGrowThenFixed ==
    /\ pc = "Building" =>
          /\ Cardinality(DOMAIN artifacts) = idx - 1
          /\ artifacts = ArtifactsOf(SubSeq(modules, 1, idx - 1))
    /\ pc \in {"Testing", "Complete"} =>
          /\ Cardinality(DOMAIN artifacts) = Len(modules)
          /\ artifacts = ArtifactsOf(modules)

\* Two modules with different seconds were built and a test has run.
C17_Witness ==
    /\ pc = "Testing"
    /\ idx > 1
    /\ Len(modules) = 2
    /\ Cardinality(DOMAIN artifacts) = 2
    /\ "seconds" \in DOMAIN modules[1]
    /\ "seconds" \notin DOMAIN modules[2]

\* ---------------------------------------------------------------------- C18
RECURSIVE Sum(_)
Sum(s) == IF s = << >> THEN 0 ELSE Head(s) + Sum(Tail(s))

\* The seconds value the k-th unit of work of the run is configured with.
ConfiguredSeconds(k) ==
    IF k <= Len(modules)
    THEN Float(Get(modules[k], "seconds", Num(DefaultModuleSeconds))).val
    ELSE Float(Get(tests[k - Len(modules)], "seconds", Num(DefaultTestSeconds))).val

\* C18: the delay requested for every unit of work is
\* max(0, min(seconds, 2)): it lies in [0, 2] whatever seconds is configured,
\* equals seconds when 0 <= seconds <= 2, is 2 for a larger seconds, and the
\* delays of a run add up to at most 2 x (modules + tests).
C18_DelayClamped ==
    /\ Len(slept) <= Len(modules) + Len(tests)
    /\ \A k \in DOMAIN slept :
          /\ slept[k] >= 0
          /\ slept[k] <= SleepCap
          /\ slept[k] = Max(0, Min(ConfiguredSeconds(k), SleepCap))
          /\ (0 <= ConfiguredSeconds(k) /\ ConfiguredSeconds(k) <= SleepCap)
                => slept[k] = ConfiguredSeconds(k)
          /\ ConfiguredSeconds(k) > SleepCap => slept[k] = SleepCap
    /\ Sum(slept) <= SleepCap * (Len(modules) + Len(tests))

\* A finished run with one unit above the cap and one strictly inside.
C18_Witness ==
    /\ pc = "Complete"
    /\ Len(slept) = 3
    /\ \E k \in DOMAIN slept : ConfiguredSeconds(k) > SleepCap /\ slept[k] = SleepCap
    /\ \E k \in DOMAIN slept : ConfiguredSeconds(k) \in 1..(SleepCap - 1)
                                 /\ slept[k] = ConfiguredSeconds(k)

\* ---------------------------------------------------------------------- C19
\* C19: a run builds and tests only configuration content that passed
\* validation, also when another process rewrites the file during the run:
\* whenever a unit of work has been executed, the modules and tests the run
\* works on form a configuration that validation accepts.
C19_OnlyValidatedContentRuns ==
    (InNormalRun /\ slept # << >>) =>
        ValidateConfig(MappingDoc(modules, tests)) = NoError

\* ---------------------------------------------------------------------- C20
\* C20: whatever scalars the fields of the modules and tests hold, null and
\* non-numeric strings as seconds included, validation returns or raises one
\* of the eight ConfigErrors, and a run returns 0, 1 or 2: no other failure
\* leaves validate_config or run_pipeline.
C20_OnlyConfigErrorsEscape ==
    Validated =>
        /\ ValidateConfig(file) = NoError \/ IsConfigError(ValidateConfig(file))
        /\ pc # "Crashed"
        /\ Returned => ret \in {0, 1, 2}

====
